---- MODULE Spec2Model ----
(***************************************************************************)
(* CodeMemoryPipeline (aqchat/pipelines/code_memory_pipeline.py): a        *)
(* Chroma-backed index of a repository, shared by several worker threads   *)
(* and guarded by one instance lock.                                       *)
(*                                                                         *)
(* The persisted Chroma collection is the bag `persisted` (Chroma gives    *)
(* every added document a fresh id, so adding the same chunk twice keeps   *)
(* two documents).  `vector_store` is only the in-memory handle to it.     *)
(* Every public method is split into the steps of its body; a thread       *)
(* enters at Acquire (`with self.lock:`), runs the steps, reaches "ret"    *)
(* with the outcome of the body and leaves the `with` block at Release.    *)
(***************************************************************************)
EXTENDS Integers, Sequences, FiniteSets, Bags

\* ------------------------------------------------------------------ bounds
\* Cap on how many generations of one file the collection may hold: ingest
\* appends to the collection, so without a cap the bag grows without end.
MaxCopies == 2

\* ------------------------------------------------------------- the world
Threads == {"t1", "t2"}

\* Files of the repository, as paths relative to the repository root.
Files == {"a.py", "b.py"}

\* A file beneath a directory that _load_repo lists in ignore_dirs.
IgnoredDirFile == ".venv/lib.py"

\* A file whose extension is not in include_ext.
IneligibleFile == "trace.log"

AllFiles == Files \cup {IgnoredDirFile, IneligibleFile}

\* A resolved absolute path that does not lie under the repository root.
OutsidePath == "/elsewhere/x.py"

\* What a file can be on disk: missing, a text (v1, or v2 after an edit), or
\* bytes that are no UTF-8.  a.py is the file that gets edited, b.py the one
\* that can turn undecodable.
ContentsOf(f) ==
    IF f = "a.py" THEN {"absent", "v1", "v2"}
    ELSE IF f = "b.py" THEN {"absent", "v1", "bad"}
    ELSE {"absent", "v1"}

Trees == {d \in [AllFiles -> {"absent", "v1", "v2", "bad"}] :
            \A f \in AllFiles : d[f] \in ContentsOf(f)}

\* The working trees without a .venv directory and without a file of an
\* ineligible extension.
PlainTrees == {d \in Trees : \A f \in AllFiles \ Files : d[f] = "absent"}

\* The directory handed to ingest: the repository, or a path that is not there.
Roots == {"R", "missing"}

NoThread == "none"

\* ------------------------------------------------------- pure helpers
\* CodeBoundaryTextSplitter.split_documents + filter_complex_metadata + the
\* len(strip()) > 3 filter, for one document: text v1 gives one chunk, text
\* v2 gives two; every chunk carries the document's source.
SplitOne(doc) ==
    IF doc.content = "v1"
    THEN {[source |-> doc.source, text |-> "v1#1"]}
    ELSE {[source |-> doc.source, text |-> "v2#1"],
          [source |-> doc.source, text |-> "v2#2"]}

RECURSIVE SplitDocuments(_)
\* The chunks of a list of documents, in a bag: a document listed twice is
\* chunked twice.
SplitDocuments(docs) ==
    IF docs = <<>> THEN EmptyBag
    ELSE SetToBag(SplitOne(Head(docs))) (+) SplitDocuments(Tail(docs))

\* Mutant: the delete matches nothing.
DeleteWhere_MatchesNothing(store, p) == store

\* Chroma.delete(where={"source": p}): every document whose source is p goes.
DeleteWhere(store, p) ==
    [c \in {d \in DOMAIN store : d.source # p} |-> store[c]]

RECURSIVE DeleteAll(_, _)
\* The delete loop of update_files over the normalised paths.
DeleteAll(store, paths) ==
    IF paths = <<>> THEN store
    ELSE DeleteAll(DeleteWhere(store, Head(paths)), Tail(paths))

\* Chroma.add_documents / the add of Chroma.from_documents: the chunks are
\* added under fresh ids, next to whatever the collection already holds.
AddDocuments(store, chunks) == store (+) chunks

\* The part of a bag whose chunks come from file f.
ChunksOf(store, f) ==
    [c \in {d \in DOMAIN store : d.source = f} |-> store[c]]

\* How many generations of file f a bag holds (every generation has a #1 chunk).
Copies(store, f) ==
    CopiesIn([source |-> f, text |-> "v1#1"], store)
    + CopiesIn([source |-> f, text |-> "v2#1"], store)

Range(s) == {s[i] : i \in 1..Len(s)}


\* ------------------------------------------------------------ the state
VARIABLES
    disk,               \* a tree of Trees: the repository's working tree
    dirState,           \* persist directory: "empty", "store" or "corrupt"
    persisted,          \* bag of chunks in the Chroma collection on disk
    hasLen,             \* whether the installed Chroma defines __len__
    vector_store,       \* self.vector_store: "None" or "Chroma"
    retriever,          \* self.retriever: NoRetriever or a built retriever
    retrieval_settings, \* self.retrieval_settings
    repo_root,          \* self._repo_root: "None" or "R"
    lock,               \* self.lock: the thread inside a `with self.lock`
    pc,                 \* Threads -> position in the method being run
    call,               \* Threads -> the method and its argument
    locals,             \* Threads -> normalised / docs of update_files, ingest
    result,             \* Threads -> outcome of the body: status and value
    pre,                \* Threads -> the shared fields as they were at Acquire
    fresh               \* no public method has been entered since __init__

shared == <<dirState, persisted, vector_store, retriever, retrieval_settings,
            repo_root>>
perThread == <<pc, call, locals, result, pre>>
vars == <<disk, hasLen, shared, lock, perThread, fresh>>

\* ----------------------------------------------------- retrieval settings
\* The default of __init__.
DefaultSettings ==
    [ret_strat |-> "mmr", k |-> 6, fetch_k |-> 20, lambda_mult |-> "0.5"]

\* The second documented form of set_retrieval_settings.
SimilaritySettings == [ret_strat |-> "similarity", k |-> 4]

\* A similarity dict that still carries the mmr keys, as a caller leaves it
\* who only switches the strategy of the dict it had.
SimilarityWithExtras ==
    [ret_strat |-> "similarity", k |-> 4, fetch_k |-> 20, lambda_mult |-> "0.5"]

\* A dict whose strategy tag is neither "mmr" nor "similarity".
UnknownTagSettings == [ret_strat |-> "bm25", k |-> 4]

\* search_kwargs=None
NoKwargs == [x \in {} |-> 0]

\* The search_type and search_kwargs _build_chain hands to as_retriever.
SearchArgs(settings) ==
    IF settings.ret_strat = "mmr"
    THEN [search_type |-> "mmr",
          search_kwargs |-> [k |-> settings.k,
                             fetch_k |-> settings.fetch_k,
                             lambda_mult |-> settings.lambda_mult]]
    ELSE IF settings.ret_strat = "similarity"
    THEN [search_type |-> "similarity", search_kwargs |-> [k |-> settings.k]]
    ELSE [search_type |-> "None", search_kwargs |-> NoKwargs]

\* VectorStore.as_retriever passes search_type on to VectorStoreRetriever,
\* whose validator accepts "similarity", "similarity_score_threshold" and
\* "mmr" only: an explicit None is rejected with a ValueError.
AsRetrieverRejects(search_type) ==
    search_type \notin {"similarity", "similarity_score_threshold", "mmr"}

NoRetriever == [built |-> FALSE]

\* `not self.vector_store` is false for a handle, unless the installed Chroma
\* defines __len__ (the collection's document count): then a handle to an
\* empty collection is falsy too.
Truthy(vs, store) ==
    /\ vs = "Chroma"
    /\ hasLen => BagCardinality(store) > 0

\* _build_chain: the error it raises, or the retriever it assigns.
BuildChain(vs, store, settings) ==
    IF ~Truthy(vs, store)
    THEN [err |-> "RuntimeError: vector store must be initialised",
          retriever |-> NoRetriever]
    ELSE LET a == SearchArgs(settings) IN
         IF AsRetrieverRejects(a.search_type)
         THEN [err |-> "ValueError: search_type not allowed",
               retriever |-> NoRetriever]
         ELSE [err |-> "none",
               retriever |-> [built |-> TRUE, search_type |-> a.search_type,
                              search_kwargs |-> a.search_kwargs]]

\* ----------------------------------------------------------- __init__
\* Opening the Chroma collection of the persist directory: it raises on a
\* corrupt or incompatible store, from __init__ and from ingest alike.
OpenFails(dir) == dir = "corrupt"

\* Mutant: the except branch does not reset the handle it had assigned.
Restore_KeepsHandleOnFailure(dir, store) ==
    IF dir = "empty"
    THEN [vector_store |-> "None", retriever |-> NoRetriever]
    ELSE IF OpenFails(dir)
    THEN [vector_store |-> "None", retriever |-> NoRetriever]
    ELSE LET b == BuildChain("Chroma", store, DefaultSettings) IN
         [vector_store |-> "Chroma", retriever |-> b.retriever]

\* The restore attempt of __init__ over a persist directory in state `dir`
\* holding `store`: the fields it leaves.
Restore(dir, store) ==
    IF dir = "empty"
    THEN [vector_store |-> "None", retriever |-> NoRetriever]
    ELSE IF OpenFails(dir)
    THEN [vector_store |-> "None", retriever |-> NoRetriever]
    ELSE LET b == BuildChain("Chroma", store, DefaultSettings) IN
         IF b.err # "none"
         THEN [vector_store |-> "None", retriever |-> NoRetriever]
         ELSE [vector_store |-> "Chroma", retriever |-> b.retriever]

NoCall == [op |-> "none", arg |-> <<>>]
\* The locals of a running method; `built` records that this call has
\* assigned self.retriever.
NoLocals == [normalised |-> <<>>, docs |-> <<>>, built |-> FALSE]
NoResult == [status |-> "none", value |-> "none"]
NoPre == [taken |-> FALSE]

Snapshot ==
    [taken |-> TRUE, dirState |-> dirState, persisted |-> persisted,
     vector_store |-> vector_store, retriever |-> retriever,
     retrieval_settings |-> retrieval_settings, repo_root |-> repo_root]

\* What root.rglob("*") yields: every directory and every file beneath the
\* root, at any depth; the chunk bag does not depend on the order.
RglobEntries == <<".venv", IgnoredDirFile, "a.py", "b.py", IneligibleFile>>

\* The default of self.include_ext.
IncludeExt ==
    {".md", ".rst", ".txt", ".json", ".toml", ".cfg", ".yaml", ".yml", ".py", ".rs"}

\* path.suffix.lower()
Suffix(e) == IF e = IneligibleFile THEN ".log" ELSE ".py"

IgnoreDirs == {".git", ".venv", "__pycache__", "dist", "build", ".idea"}

\* path.is_dir() of an entry.
IsDir(e) == e \notin AllFiles

\* The `continue` of _load_repo: taken for an entry that is a directory
\* whose own name is in ignore_dirs.
SkippedEntry(e) == IsDir(e) /\ e \in IgnoreDirs

\* The entries of the walk that get past the `continue` and the extension
\* test, directories left out (a directory is no file, so the second test
\* never loads it).
FileOrder ==
    SelectSeq(RglobEntries,
              LAMBDA e : ~SkippedEntry(e) /\ ~IsDir(e) /\ Suffix(e) \in IncludeExt)

\* TextLoader(path, encoding="utf-8").load() raises on bytes that are no UTF-8.
Undecodable(content) == content = "bad"

\* _load_single_file: the document of one file, tagged with its relative path.
LoadSingleFile(d, f) == <<[source |-> f, content |-> d[f]]>>

RECURSIVE LoadEach(_, _)
\* The documents of the files of `paths` that exist in tree d, in order; a
\* path listed twice is loaded twice.
LoadEach(d, paths) ==
    IF paths = <<>> THEN <<>>
    ELSE (IF d[Head(paths)] = "absent" THEN <<>> ELSE LoadSingleFile(d, Head(paths)))
         \o LoadEach(d, Tail(paths))

\* Whether loading `paths` from tree d meets a file it cannot decode.
LoadRaises(d, paths) == \E i \in 1..Len(paths) : Undecodable(d[paths[i]])

\* _load_repo: every file under the root with an eligible extension.
LoadRepo(d) ==
    IF LoadRaises(d, FileOrder)
    THEN [err |-> "RuntimeError: error loading file", docs |-> <<>>]
    ELSE [err |-> "none", docs |-> LoadEach(d, FileOrder)]

\* Persist directories a process can find at start: none yet, a corrupt
\* one, an emptied collection, or the collection of an earlier run.
InitialStores ==
    {EmptyBag} \cup
    {SplitDocuments(LoadEach(d, FileOrder)) :
        d \in {[f \in AllFiles |-> IF f \in Files THEN "v1" ELSE "absent"],
               [f \in AllFiles |-> IF f = "a.py" THEN "v2"
                                   ELSE IF f = "b.py" THEN "v1" ELSE "absent"]}}

\* The state after construction over one of the working trees `trees` and a
\* persist directory in one of the states `dirs`.
InitOver(trees, dirs) ==
    /\ hasLen \in BOOLEAN
    /\ disk \in trees
    /\ dirState \in dirs
    /\ persisted \in (IF dirState = "store" THEN InitialStores ELSE {EmptyBag})
    /\ retrieval_settings = DefaultSettings
    /\ LET r == Restore(dirState, persisted) IN
         /\ vector_store = r.vector_store
         /\ retriever = r.retriever
    /\ repo_root = "None"
    /\ lock = NoThread
    /\ pc = [t \in Threads |-> "idle"]
    /\ call = [t \in Threads |-> NoCall]
    /\ locals = [t \in Threads |-> NoLocals]
    /\ result = [t \in Threads |-> NoResult]
    /\ pre = [t \in Threads |-> NoPre]
    /\ fresh = TRUE

Init == InitOver(PlainTrees, {"empty", "store", "corrupt"})


\* ------------------------------------------------------------- the calls
\* Longest argument list of update_files that is tried.
MaxArgs == 2

ArgPaths == Files \cup {OutsidePath}

UpdateArgs == UNION {[1..n -> ArgPaths] : n \in 0..MaxArgs}

SettingsNamed(name) ==
    IF name = "similarity" THEN SimilaritySettings
    ELSE IF name = "similarity+extras" THEN SimilarityWithExtras
    ELSE IF name = "unknown" THEN UnknownTagSettings
    ELSE DefaultSettings

Calls ==
    {[op |-> "ingest", arg |-> <<r>>] : r \in Roots}
    \cup {[op |-> "update_files", arg |-> a] : a \in UpdateArgs}
    \cup {[op |-> o, arg |-> <<>>] :
            o \in {"ready_for_retrieval", "invoke", "clear", "has_vector_db",
                   "clear_vector_db"}}
    \cup {[op |-> "set_retrieval_settings", arg |-> <<n>>] :
            n \in {"mmr", "similarity", "similarity+extras", "unknown"}}

\* How often path p occurs in the argument list a.
Occurrences(a, p) == Cardinality({i \in 1..Len(a) : a[i] = p})

\* The calls that keep the collection within MaxCopies generations per file.
WithinCap(c) ==
    /\ c.op = "ingest" => \A f \in AllFiles : Copies(persisted, f) < MaxCopies
    /\ c.op = "update_files" => \A f \in AllFiles : Occurrences(c.arg, f) <= MaxCopies

\* Mutant: the lock is never waited for.
LockFree_NotChecked == TRUE

\* `with self.lock:` is entered only by a thread that finds the lock free.
LockFree == lock = NoThread

Return(t, status, value) ==
    /\ pc' = [pc EXCEPT ![t] = "ret"]
    /\ result' = [result EXCEPT ![t] = [status |-> status, value |-> value]]

Goto(t, label) ==
    /\ pc' = [pc EXCEPT ![t] = label]
    /\ UNCHANGED result

\* Entering `with self.lock:` for call c: the lock is taken, and the shared
\* fields as they are now are remembered for the properties.
Enter(t, c) ==
    /\ LockFree
    /\ WithinCap(c)
    /\ lock' = t
    /\ pc' = [pc EXCEPT ![t] = c.op]
    /\ call' = [call EXCEPT ![t] = c]
    /\ pre' = [pre EXCEPT ![t] = Snapshot]
    /\ fresh' = FALSE
    /\ UNCHANGED <<disk, hasLen, shared, locals, result>>

\* Thread t calls a public method and finds the lock free.
Acquire(t, c) ==
    /\ pc[t] = "idle"
    /\ Enter(t, c)

\* Thread t calls a public method and blocks on `with self.lock:` ...
CallMethod(t, c) ==
    /\ pc[t] = "idle"
    /\ pc' = [pc EXCEPT ![t] = "waiting"]
    /\ call' = [call EXCEPT ![t] = c]
    /\ UNCHANGED <<disk, hasLen, shared, lock, locals, result, pre, fresh>>

\* ... until it gets the lock.
AcquireWaiting(t) ==
    /\ pc[t] = "waiting"
    /\ Enter(t, call[t])

\* The `with` block ends, by return or by exception: the lock is released.
Release(t) ==
    /\ pc[t] = "ret"
    /\ lock' = NoThread
    /\ pc' = [pc EXCEPT ![t] = "idle"]
    /\ call' = [call EXCEPT ![t] = NoCall]
    /\ locals' = [locals EXCEPT ![t] = NoLocals]
    /\ result' = [result EXCEPT ![t] = NoResult]
    /\ pre' = [pre EXCEPT ![t] = NoPre]
    /\ UNCHANGED <<disk, hasLen, shared, fresh>>


\* The embedding capability fails: add_documents / from_documents embed
\* the whole batch before they add it, so a failure adds no chunk.
EmbedError == "Exception: embedding failed"

\* Whether embedding the chunks of `docs` fails: it can whenever there is
\* something to embed.
EmbeddingOutcomes(docs) == IF docs = <<>> THEN {FALSE} ELSE {FALSE, TRUE}

\* ---------------------------------------------------------------- ingest
\* Path(repo_path).exists()
RootExists(r) == r = "R"

\* ingest, up to _load_repo: the existence check, remembering the root, and
\* reading every eligible file.
IngestLoad(t) ==
    /\ pc[t] = "ingest"
    /\ IF ~RootExists(call[t].arg[1])
       THEN /\ Return(t, "FileNotFoundError", "none")
            /\ UNCHANGED <<shared, locals>>
       ELSE /\ repo_root' = "R"
            /\ LET l == LoadRepo(disk) IN
               IF l.err # "none"
               THEN /\ Return(t, l.err, "none")
                    /\ UNCHANGED locals
               ELSE /\ Goto(t, "ingest_store")
                    /\ locals' = [locals EXCEPT ![t].docs = l.docs]
            /\ UNCHANGED <<dirState, persisted, vector_store, retriever,
                           retrieval_settings>>
    /\ UNCHANGED <<disk, hasLen, lock, call, pre, fresh>>

\* ingest: split, filter, and Chroma.from_documents over the persist
\* directory, which opens the collection found there and adds the chunks.
IngestStore(t) ==
    /\ pc[t] = "ingest_store"
    /\ IF OpenFails(dirState)
       THEN /\ Return(t, "Exception: cannot open store", "none")
            /\ UNCHANGED shared
       ELSE \E fails \in EmbeddingOutcomes(locals[t].docs) :
            IF fails
            THEN /\ dirState' = "store"
                 /\ Return(t, EmbedError, "none")
                 /\ UNCHANGED <<persisted, vector_store, retriever,
                                retrieval_settings, repo_root>>
            ELSE /\ persisted' = AddDocuments(persisted, SplitDocuments(locals[t].docs))
                 /\ dirState' = "store"
                 /\ vector_store' = "Chroma"
                 /\ Goto(t, "ingest_build")
                 /\ UNCHANGED <<retriever, retrieval_settings, repo_root>>
    /\ UNCHANGED <<disk, hasLen, lock, call, locals, pre, fresh>>

\* Mutant: update_files rebuilds the retriever only when it added chunks.
BuildStep_SkipsWhenNothingAdded(t) ==
    /\ pc[t] \in {"ingest_build", "upd_build"}
    /\ LET b == BuildChain(vector_store, persisted, retrieval_settings) IN
       IF pc[t] = "upd_build" /\ locals[t].docs = <<>>
       THEN /\ Return(t, "ok", "none")
            /\ UNCHANGED <<retriever, locals>>
       ELSE IF b.err # "none"
       THEN /\ Return(t, b.err, "none")
            /\ UNCHANGED <<retriever, locals>>
       ELSE /\ Return(t, "ok", "none")
            /\ retriever' = b.retriever
            /\ locals' = [locals EXCEPT ![t].built = TRUE]
    /\ UNCHANGED <<disk, hasLen, dirState, persisted, vector_store,
                   retrieval_settings, repo_root, lock, call, pre, fresh>>

\* The closing self._build_chain() of ingest and of update_files.
BuildStep(t) ==
    /\ pc[t] \in {"ingest_build", "upd_build"}
    /\ LET b == BuildChain(vector_store, persisted, retrieval_settings) IN
       IF b.err # "none"
       THEN /\ Return(t, b.err, "none")
            /\ UNCHANGED <<retriever, locals>>
       ELSE /\ Return(t, "ok", "none")
            /\ retriever' = b.retriever
            /\ locals' = [locals EXCEPT ![t].built = TRUE]
    /\ UNCHANGED <<disk, hasLen, dirState, persisted, vector_store,
                   retrieval_settings, repo_root, lock, call, pre, fresh>>

\* ---------------------------------------------------------- update_files
\* p.relative_to(self._repo_root) raises ValueError for a path not under it.
IsOutside(p) == p \notin AllFiles

\* The paths of argument list a that come before its first outside path.
RECURSIVE BeforeOutside(_)
BeforeOutside(a) ==
    IF a = <<>> \/ IsOutside(Head(a)) THEN <<>>
    ELSE <<Head(a)>> \o BeforeOutside(Tail(a))

\* Mutant: each path's old chunks are deleted as soon as it is normalised,
\* so the paths before an outside path are gone when the ValueError comes.
UpdNormalise_DeletesAsItGoes(t) ==
    /\ pc[t] = "update_files"
    /\ LET a == call[t].arg IN
       IF ~Truthy(vector_store, persisted)
       THEN /\ Return(t, "RuntimeError: call ingest before updating", "none")
            /\ UNCHANGED <<locals, persisted>>
       ELSE IF a # <<>> /\ repo_root = "None"
       THEN /\ Return(t, "TypeError", "none")
            /\ UNCHANGED <<locals, persisted>>
       ELSE IF \E i \in 1..Len(a) : IsOutside(a[i])
       THEN /\ Return(t, "ValueError: outside the ingested repository root", "none")
            /\ persisted' = DeleteAll(persisted, BeforeOutside(a))
            /\ UNCHANGED locals
       ELSE /\ Goto(t, "upd_delete")
            /\ locals' = [locals EXCEPT ![t].normalised = a]
            /\ UNCHANGED persisted
    /\ UNCHANGED <<disk, hasLen, dirState, vector_store, retriever,
                   retrieval_settings, repo_root, lock, call, pre, fresh>>

\* update_files: the store check and the normalisation loop.
UpdNormalise(t) ==
    /\ pc[t] = "update_files"
    /\ LET a == call[t].arg IN
       IF ~Truthy(vector_store, persisted)
       THEN /\ Return(t, "RuntimeError: call ingest before updating", "none")
            /\ UNCHANGED locals
       ELSE IF a # <<>> /\ repo_root = "None"
       THEN /\ Return(t, "TypeError", "none")
            /\ UNCHANGED locals
       ELSE IF \E i \in 1..Len(a) : IsOutside(a[i])
       THEN /\ Return(t, "ValueError: outside the ingested repository root", "none")
            /\ UNCHANGED locals
       ELSE /\ Goto(t, "upd_delete")
            /\ locals' = [locals EXCEPT ![t].normalised = a]
    /\ UNCHANGED <<disk, hasLen, shared, lock, call, pre, fresh>>

\* Mutant: the lock covers the delete loop only and is given up after it.
UpdDelete_LockEndsAfterDelete(t) ==
    /\ pc[t] = "upd_delete"
    /\ persisted' = DeleteAll(persisted, locals[t].normalised)
    /\ Goto(t, "upd_load")
    /\ lock' = NoThread
    /\ UNCHANGED <<disk, hasLen, dirState, vector_store, retriever,
                   retrieval_settings, repo_root, call, locals, pre, fresh>>

\* update_files: delete the old chunks of every normalised path.
UpdDelete(t) ==
    /\ pc[t] = "upd_delete"
    /\ persisted' = DeleteAll(persisted, locals[t].normalised)
    /\ Goto(t, "upd_load")
    /\ UNCHANGED <<disk, hasLen, dirState, vector_store, retriever,
                   retrieval_settings, repo_root, lock, call, locals, pre,
                   fresh>>

\* update_files: reload every normalised path that still exists.
UpdLoad(t) ==
    /\ pc[t] = "upd_load"
    /\ IF LoadRaises(disk, locals[t].normalised)
       THEN /\ Return(t, "RuntimeError: error loading file", "none")
            /\ UNCHANGED locals
       ELSE /\ Goto(t, "upd_add")
            /\ locals' = [locals EXCEPT ![t].docs = LoadEach(disk, locals[t].normalised)]
    /\ UNCHANGED <<disk, hasLen, shared, lock, call, pre, fresh>>

\* Mutant: the chunks are embedded and added one document at a time, so a
\* failure leaves the chunks of the first document in the collection.
UpdAdd_AddsUntilFailure(t) ==
    /\ pc[t] = "upd_add"
    /\ \E fails \in EmbeddingOutcomes(locals[t].docs) :
         IF fails
         THEN /\ persisted' = AddDocuments(persisted,
                                  SplitDocuments(<<Head(locals[t].docs)>>))
              /\ Return(t, EmbedError, "none")
         ELSE /\ persisted' = IF locals[t].docs # <<>>
                              THEN AddDocuments(persisted, SplitDocuments(locals[t].docs))
                              ELSE persisted
              /\ Goto(t, "upd_build")
    /\ UNCHANGED <<disk, hasLen, dirState, vector_store, retriever,
                   retrieval_settings, repo_root, lock, call, locals, pre,
                   fresh>>

\* update_files: split, filter and add the fresh chunks, if there are any.
UpdAdd(t) ==
    /\ pc[t] = "upd_add"
    /\ \E fails \in EmbeddingOutcomes(locals[t].docs) :
         IF fails
         THEN /\ Return(t, EmbedError, "none")
              /\ UNCHANGED persisted
         ELSE /\ persisted' = IF locals[t].docs # <<>>
                              THEN AddDocuments(persisted, SplitDocuments(locals[t].docs))
                              ELSE persisted
              /\ Goto(t, "upd_build")
    /\ UNCHANGED <<disk, hasLen, dirState, vector_store, retriever,
                   retrieval_settings, repo_root, lock, call, locals, pre,
                   fresh>>

\* ------------------------------------------------------ the short methods
ReadyForRetrieval(t) ==
    /\ pc[t] = "ready_for_retrieval"
    /\ Return(t, "ok", IF retriever # NoRetriever THEN "True" ELSE "False")
    /\ UNCHANGED <<disk, hasLen, shared, lock, call, locals, pre, fresh>>

HasVectorDb(t) ==
    /\ pc[t] = "has_vector_db"
    /\ Return(t, "ok", IF vector_store # "None" THEN "True" ELSE "False")
    /\ UNCHANGED <<disk, hasLen, shared, lock, call, locals, pre, fresh>>

\* invoke: self.retriever.invoke(input); on None the attribute lookup raises.
Invoke(t) ==
    /\ pc[t] = "invoke"
    /\ IF retriever = NoRetriever
       THEN Return(t, "AttributeError", "none")
       ELSE Return(t, "ok", "documents")
    /\ UNCHANGED <<disk, hasLen, shared, lock, call, locals, pre, fresh>>

\* _clear: drop the in-memory handles.
ClearFields ==
    /\ vector_store' = "None"
    /\ retriever' = NoRetriever
    /\ repo_root' = "None"

\* Mutant: clear also empties the persist directory.
Clear_AlsoEmptiesDirectory(t) ==
    /\ pc[t] = "clear"
    /\ ClearFields
    /\ dirState' = "empty"
    /\ persisted' = EmptyBag
    /\ Return(t, "ok", "none")
    /\ UNCHANGED <<disk, hasLen, retrieval_settings, lock, call, locals, pre,
                   fresh>>

\* clear: _clear under the lock.
Clear(t) ==
    /\ pc[t] = "clear"
    /\ ClearFields
    /\ Return(t, "ok", "none")
    /\ UNCHANGED <<disk, hasLen, dirState, persisted, retrieval_settings, lock,
                   call, locals, pre, fresh>>

\* Mutant: clear_vector_db drops the handles and leaves the directory.
ClearVectorDb_KeepsDirectory(t) ==
    /\ pc[t] = "clear_vector_db"
    /\ ClearFields
    /\ Return(t, "ok", "none")
    /\ UNCHANGED <<disk, hasLen, dirState, persisted, retrieval_settings, lock,
                   call, locals, pre, fresh>>

\* Mutant: clear_vector_db calls the public clear(), which enters
\* `with self.lock:` again while the thread holds the lock.
ClearVectorDb_CallsClear(t) ==
    /\ pc[t] = "clear_vector_db"
    /\ LockFree
    /\ ClearFields
    /\ dirState' = "empty"
    /\ persisted' = EmptyBag
    /\ Return(t, "ok", "none")
    /\ UNCHANGED <<disk, hasLen, retrieval_settings, lock, call, locals, pre,
                   fresh>>

\* clear_vector_db: _clear, then rmtree and mkdir of the persist directory.
ClearVectorDb(t) ==
    /\ pc[t] = "clear_vector_db"
    /\ ClearFields
    /\ dirState' = "empty"
    /\ persisted' = EmptyBag
    /\ Return(t, "ok", "none")
    /\ UNCHANGED <<disk, hasLen, retrieval_settings, lock, call, locals, pre,
                   fresh>>

\* Mutant: the new settings are kept only when the build succeeded.
SetRetrievalSettings_StoresAfterBuild(t) ==
    /\ pc[t] = "set_retrieval_settings"
    /\ LET b == BuildChain(vector_store, persisted,
                           SettingsNamed(call[t].arg[1])) IN
       IF b.err # "none"
       THEN /\ Return(t, b.err, "none")
            /\ UNCHANGED <<retriever, retrieval_settings, locals>>
       ELSE /\ Return(t, "ok", "none")
            /\ retrieval_settings' = SettingsNamed(call[t].arg[1])
            /\ retriever' = b.retriever
            /\ locals' = [locals EXCEPT ![t].built = TRUE]
    /\ UNCHANGED <<disk, hasLen, dirState, persisted, vector_store, repo_root,
                   lock, call, pre, fresh>>

\* set_retrieval_settings: store the dict, then _build_chain.
SetRetrievalSettings(t) ==
    /\ pc[t] = "set_retrieval_settings"
    /\ retrieval_settings' = SettingsNamed(call[t].arg[1])
    /\ LET b == BuildChain(vector_store, persisted, retrieval_settings') IN
       IF b.err # "none"
       THEN /\ Return(t, b.err, "none")
            /\ UNCHANGED <<retriever, locals>>
       ELSE /\ Return(t, "ok", "none")
            /\ retriever' = b.retriever
            /\ locals' = [locals EXCEPT ![t].built = TRUE]
    /\ UNCHANGED <<disk, hasLen, dirState, persisted, vector_store, repo_root,
                   lock, call, pre, fresh>>

\* ------------------------------------------------------- the environment
\* The working tree changes (a pull, an edit) while no method is running.
EditFile(f, c) ==
    /\ lock = NoThread
    /\ \A t \in Threads : pc[t] = "idle"
    /\ c # disk[f]
    /\ disk' = [disk EXCEPT ![f] = c]
    /\ UNCHANGED <<hasLen, shared, lock, perThread, fresh>>

\* The process restarts: a new instance is constructed over the persist
\* directory as it is.
Restart ==
    /\ lock = NoThread
    /\ \A t \in Threads : pc[t] = "idle"
    /\ ~fresh
    /\ retrieval_settings' = DefaultSettings
    /\ LET r == Restore(dirState, persisted) IN
         /\ vector_store' = r.vector_store
         /\ retriever' = r.retriever
    /\ repo_root' = "None"
    /\ fresh' = TRUE
    /\ UNCHANGED <<disk, hasLen, dirState, persisted, lock, perThread>>

Next ==
    \/ \E t \in Threads, c \in Calls : Acquire(t, c)
    \/ \E t \in Threads : IngestLoad(t)
    \/ \E t \in Threads : IngestStore(t)
    \/ \E t \in Threads : BuildStep(t)
    \/ \E t \in Threads : UpdNormalise(t)
    \/ \E t \in Threads : UpdDelete(t)
    \/ \E t \in Threads : UpdLoad(t)
    \/ \E t \in Threads : UpdAdd(t)
    \/ \E t \in Threads : ReadyForRetrieval(t)
    \/ \E t \in Threads : HasVectorDb(t)
    \/ \E t \in Threads : Invoke(t)
    \/ \E t \in Threads : Clear(t)
    \/ \E t \in Threads : ClearVectorDb(t)
    \/ \E t \in Threads : SetRetrievalSettings(t)
    \/ \E t \in Threads : Release(t)
    \/ \E f \in Files : \E c \in ContentsOf(f) : EditFile(f, c)
    \/ Restart

Spec == Init /\ [][Next]_vars


\* ------------------------------------------------- concurrent callers
\* Two sessions at work on an index: their calls are outstanding together,
\* one inside the lock and the other blocked on it.
ConcCalls ==
    {c \in Calls :
        /\ c.op = "ingest" => c.arg = <<"R">>
        /\ c.op = "update_files" => Len(c.arg) = 1 /\ c.arg[1] \in Files
        /\ c.op = "set_retrieval_settings" => c.arg = <<"similarity">>}

NextConc ==
    \/ \E t \in Threads, c \in ConcCalls : CallMethod(t, c)
    \/ \E t \in Threads : AcquireWaiting(t)
    \/ \E t \in Threads : IngestLoad(t)
    \/ \E t \in Threads : IngestStore(t)
    \/ \E t \in Threads : BuildStep(t)
    \/ \E t \in Threads : UpdNormalise(t)
    \/ \E t \in Threads : UpdDelete(t)
    \/ \E t \in Threads : UpdLoad(t)
    \/ \E t \in Threads : UpdAdd(t)
    \/ \E t \in Threads : ReadyForRetrieval(t)
    \/ \E t \in Threads : HasVectorDb(t)
    \/ \E t \in Threads : Invoke(t)
    \/ \E t \in Threads : Clear(t)
    \/ \E t \in Threads : ClearVectorDb(t)
    \/ \E t \in Threads : SetRetrievalSettings(t)
    \/ \E t \in Threads : Release(t)
    \/ \E f \in Files : \E c \in ContentsOf(f) : EditFile(f, c)

SpecConc == Init /\ [][NextConc]_vars

\* ------------------------------------------------- fair scheduling
\* Two sessions calling into one instance over an unchanging working tree
\* in which both files are readable.
LiveTree == [f \in AllFiles |-> IF f \in Files THEN "v1" ELSE "absent"]

InitLive == InitOver({LiveTree}, {"empty", "store"})

LiveCalls ==
    {c \in ConcCalls : c.op = "update_files" => c.arg = <<"a.py">>}

\* The ingest calls that are outstanding.
PendingIngests == {u \in Threads : pc[u] # "idle" /\ call[u].op = "ingest"}

\* Thread t calls a public method; an ingest is called only while the
\* collection has room for it and for the ingests already outstanding.
CallWithinCap(t, c) ==
    /\ c.op = "ingest" =>
          \A f \in AllFiles :
              Copies(persisted, f) + Cardinality(PendingIngests) < MaxCopies
    /\ CallMethod(t, c)

NextLive ==
    \/ \E t \in Threads, c \in LiveCalls : CallWithinCap(t, c)
    \/ \E t \in Threads : AcquireWaiting(t)
    \/ \E t \in Threads : IngestLoad(t)
    \/ \E t \in Threads : IngestStore(t)
    \/ \E t \in Threads : BuildStep(t)
    \/ \E t \in Threads : UpdNormalise(t)
    \/ \E t \in Threads : UpdDelete(t)
    \/ \E t \in Threads : UpdLoad(t)
    \/ \E t \in Threads : UpdAdd(t)
    \/ \E t \in Threads : ReadyForRetrieval(t)
    \/ \E t \in Threads : HasVectorDb(t)
    \/ \E t \in Threads : Invoke(t)
    \/ \E t \in Threads : Clear(t)
    \/ \E t \in Threads : ClearVectorDb(t)
    \/ \E t \in Threads : SetRetrievalSettings(t)
    \/ \E t \in Threads : Release(t)

\* A step of the body of the method thread t is in.
BodyStep(t) ==
    \/ IngestLoad(t) \/ IngestStore(t) \/ BuildStep(t)
    \/ UpdNormalise(t) \/ UpdDelete(t) \/ UpdLoad(t) \/ UpdAdd(t)
    \/ ReadyForRetrieval(t) \/ HasVectorDb(t) \/ Invoke(t)
    \/ Clear(t) \/ ClearVectorDb(t) \/ SetRetrievalSettings(t)

\* Calls terminate (a thread inside a method keeps running until the `with`
\* block is left), and the lock is handed out fairly: a thread blocked on
\* it gets it if it is free again and again.
Fairness ==
    \A t \in Threads :
        /\ WF_vars(BodyStep(t))
        /\ WF_vars(Release(t))
        /\ SF_vars(AcquireWaiting(t))

SpecLive == InitLive /\ [][NextLive]_vars /\ Fairness

\* ------------------------------------------- a repository with a .venv
\* Indexing a working tree that has a file beneath an ignored directory and
\* a file of an ineligible extension: ingest and single-path update_files
\* over a persist directory that starts empty.
TreeCalls ==
    {[op |-> "ingest", arg |-> <<"R">>], [op |-> "clear_vector_db", arg |-> <<>>]}
    \cup {[op |-> "update_files", arg |-> <<f>>] : f \in AllFiles}

InitTree == InitOver(Trees, {"empty"})

NextTree ==
    \/ \E t \in Threads, c \in TreeCalls : Acquire(t, c)
    \/ \E t \in Threads : IngestLoad(t)
    \/ \E t \in Threads : IngestStore(t)
    \/ \E t \in Threads : BuildStep(t)
    \/ \E t \in Threads : UpdNormalise(t)
    \/ \E t \in Threads : UpdDelete(t)
    \/ \E t \in Threads : UpdLoad(t)
    \/ \E t \in Threads : UpdAdd(t)
    \/ \E t \in Threads : ClearVectorDb(t)
    \/ \E t \in Threads : Release(t)
    \/ \E f \in AllFiles : \E c \in ContentsOf(f) : EditFile(f, c)

SpecTree == InitTree /\ [][NextTree]_vars

\* =================================================================
\* Properties
\* =================================================================
AtRet(t, op) == pc[t] = "ret" /\ call[t].op = op

Returned(t, op) == AtRet(t, op) /\ result[t].status = "ok"

IsText(content) == content \in {"v1", "v2"}

\* The chunks one chunking of file f of tree d gives: none if f is missing.
OneChunking(d, f) ==
    IF IsText(d[f])
    THEN SetToBag(SplitOne([source |-> f, content |-> d[f]]))
    ELSE EmptyBag

\* C1 (as claimed): after update_files returns normally, for every path
\* named in the call the collection holds exactly the chunks of one chunking
\* of the file's current content: no older generation, no second copy.
C1_NoDuplicateGeneration ==
    \A t \in Threads :
        Returned(t, "update_files") =>
            \A p \in Range(call[t].arg) :
                ChunksOf(persisted, p) = OneChunking(disk, p)


\* A thread is inside a `with self.lock:` block.
Inside(t) == pc[t] \notin {"idle", "waiting"}

\* What one uninterrupted update_files(args) makes of a collection, given
\* the working tree d.
SerialUpdate(store, d, args) ==
    AddDocuments(DeleteAll(store, args), SplitDocuments(LoadEach(d, args)))

\* C2: concurrent update_files calls are serialised.  While a call is
\* between its delete step and its add step no other thread is inside any
\* method, and the collection a call leaves is what the call alone makes of
\* the collection it found when it got the lock; so the calls take effect
\* one after the other, in the order they got the lock: the chunks of the
\* other call's file are kept and the call's own file is held once.
C2_SerializableUpdates ==
    \A t \in Threads :
        /\ pc[t] \in {"upd_load", "upd_add"} =>
              \A u \in Threads \ {t} : ~Inside(u)
        /\ Returned(t, "update_files") =>
              /\ persisted = SerialUpdate(pre[t].persisted, disk, call[t].arg)
              /\ \A f \in Files :
                    ChunksOf(persisted, f) =
                        IF f \in Range(call[t].arg) THEN OneChunking(disk, f)
                        ELSE ChunksOf(pre[t].persisted, f)

\* Thread t has deleted the old chunks of the edited a.py and not yet added
\* the new ones, while thread u is blocked in update_files("b.py").
C2_Witness ==
    \E t \in Threads, u \in Threads :
        /\ t # u
        /\ pc[t] = "upd_add"
        /\ call[t].arg = <<"a.py">>
        /\ disk["a.py"] = "v2"
        /\ BagIn([source |-> "a.py", text |-> "v1#1"], pre[t].persisted)
        /\ ~BagIn([source |-> "a.py", text |-> "v1#1"], persisted)
        /\ pc[u] = "waiting"
        /\ call[u] = [op |-> "update_files", arg |-> <<"b.py">>]

MutexInv ==
    /\ \A t \in Threads, u \in Threads : t # u => ~(Inside(t) /\ Inside(u))
    /\ \A t \in Threads : Inside(t) <=> lock = t

\* A step that runs part of a method body, or changes a shared field, is a
\* step of the thread that holds the lock.
OnlyHolderActs ==
    /\ \A t \in Threads : Inside(t) /\ pc'[t] # pc[t] => lock = t
    /\ shared' # shared =>
          \E t \in Threads : lock = t /\ Inside(t) /\ pc'[t] # pc[t]

\* C3: every public method holds the instance lock for its whole body: at
\* most one thread is inside a method, that thread holds the lock, and the
\* shared fields and the persist directory change only in its steps.
C3_MutualExclusion == [](MutexInv) /\ [][OnlyHolderActs]_vars

\* A thread is inside clear_vector_db while the other is blocked in ingest.
C3_Witness ==
    \E t \in Threads, u \in Threads :
        /\ t # u
        /\ lock = t
        /\ AtRet(t, "clear_vector_db")
        /\ pre[t].dirState = "store" /\ dirState = "empty"
        /\ pc[u] = "waiting"
        /\ call[u].op = "ingest"


\* C4 (as claimed): ingest on an instance that already has a store leaves
\* exactly the chunks of the files now under the root, each once.
C4_IngestReplaces ==
    \A t \in Threads :
        Returned(t, "ingest") /\ pre[t].vector_store = "Chroma" =>
            persisted = SplitDocuments(LoadEach(disk, FileOrder))

\* update_files failed one of its checks before touching the collection.
PreconditionErrors ==
    {"RuntimeError: call ingest before updating", "TypeError",
     "ValueError: outside the ingested repository root"}

\* C5: when update_files got past its checks, a named path whose file is
\* gone from disk has no chunk left in the collection and none added, and
\* the chunks of every file not named in the call are as before the call.
C5_DeletionThroughUpdate ==
    \A t \in Threads :
        AtRet(t, "update_files") /\ result[t].status \notin PreconditionErrors =>
            /\ \A p \in Range(call[t].arg) :
                  disk[p] = "absent" => ChunksOf(persisted, p) = EmptyBag
            /\ \A f \in Files \ Range(call[t].arg) :
                  ChunksOf(persisted, f) = ChunksOf(pre[t].persisted, f)

\* update_files("b.py") returned after b.py was removed from disk: b.py's
\* chunks were in the collection and are gone, a.py's are still there.
C5_Witness ==
    \E t \in Threads :
        /\ Returned(t, "update_files")
        /\ call[t].arg = <<"b.py">>
        /\ disk["b.py"] = "absent"
        /\ ChunksOf(pre[t].persisted, "b.py") # EmptyBag
        /\ ChunksOf(persisted, "b.py") = EmptyBag
        /\ ChunksOf(persisted, "a.py") # EmptyBag

\* C6 (as claimed): update_files on an instance that has not been through
\* ingest (no root remembered) fails with the not-ingested RuntimeError and
\* leaves collection and retriever alone.
C6_UpdateBeforeIngestFails ==
    \A t \in Threads :
        AtRet(t, "update_files") /\ pre[t].repo_root = "None" =>
            /\ result[t].status = "RuntimeError: call ingest before updating"
            /\ persisted = pre[t].persisted
            /\ retriever = pre[t].retriever

\* C7 (as claimed): invoke without a retriever fails with a dedicated
\* not-ready error and returns nothing; it returns documents only when a
\* retriever built from a present store exists.
C7_QueryOnlyWhenLoaded ==
    \A t \in Threads :
        AtRet(t, "invoke") =>
            IF pre[t].retriever = NoRetriever
            THEN result[t].status = "NotReadyError" /\ result[t].value = "none"
            ELSE pre[t].vector_store = "Chroma"

HasOutside(a) == \E i \in 1..Len(a) : a[i] = OutsidePath

\* C8: an update_files call that names a path outside the remembered root
\* changes nothing: collection, handles, root and persist directory are as
\* before the call, also for the in-root paths of the same call; and on an
\* instance with a store and a root the call fails with the ValueError.
C8_OutOfScopeFailsBeforeAnyChange ==
    \A t \in Threads :
        AtRet(t, "update_files") /\ HasOutside(call[t].arg) =>
            /\ result[t].status # "ok"
            /\ <<dirState, persisted, vector_store, retriever, repo_root>>
                 = <<pre[t].dirState, pre[t].persisted, pre[t].vector_store,
                     pre[t].retriever, pre[t].repo_root>>
            /\ (pre[t].repo_root = "R"
                /\ pre[t].vector_store = "Chroma"
                /\ BagCardinality(pre[t].persisted) > 0)
               => result[t].status = "ValueError: outside the ingested repository root"

\* update_files("a.py", <outside>) failed with the ValueError; a.py was
\* edited since it was indexed and its old chunks are still in place.
C8_Witness ==
    \E t \in Threads :
        /\ AtRet(t, "update_files")
        /\ call[t].arg = <<"a.py", OutsidePath>>
        /\ result[t].status = "ValueError: outside the ingested repository root"
        /\ disk["a.py"] = "v2"
        /\ ChunksOf(persisted, "a.py")
             = SetToBag(SplitOne([source |-> "a.py", content |-> "v1"]))

\* C9 (as claimed): an undecodable file is skipped: the ingest or
\* update_files call it is part of still completes and indexes the readable
\* files of the call.
C9_PerFileIsolation ==
    \A t \in Threads :
        /\ (/\ AtRet(t, "ingest")
            /\ RootExists(call[t].arg[1])
            /\ pre[t].dirState # "corrupt"
            /\ disk["b.py"] = "bad" /\ IsText(disk["a.py"]))
           => /\ result[t].status = "ok"
              /\ ChunksOf(persisted, "b.py") = ChunksOf(pre[t].persisted, "b.py")
              /\ OneChunking(disk, "a.py") \sqsubseteq ChunksOf(persisted, "a.py")
        /\ (/\ AtRet(t, "update_files")
            /\ result[t].status \notin PreconditionErrors
            /\ Range(call[t].arg) = {"a.py", "b.py"}
            /\ disk["b.py"] = "bad" /\ IsText(disk["a.py"]))
           => /\ result[t].status = "ok"
              /\ ChunksOf(persisted, "a.py") # EmptyBag

\* What is on disk makes the restore attempt of __init__ fail: the store
\* cannot be opened, or the retriever cannot be built on it.
RestoreMustFail ==
    \/ dirState = "corrupt"
    \/ dirState = "store" /\ hasLen /\ persisted = EmptyBag

Loaded == vector_store = "Chroma" /\ retriever # NoRetriever

C11_RetrieverFreshness ==
    \A t \in Threads :
        Returned(t, "update_files") =>
            /\ locals[t].built
            /\ retriever # NoRetriever
            /\ retriever
                 = BuildChain(vector_store, persisted, retrieval_settings).retriever

\* update_files() without a path returned: it changed nothing in the
\* collection and has rebuilt the retriever.
C11_Witness ==
    \E t \in Threads :
        /\ Returned(t, "update_files")
        /\ call[t].arg = <<>>
        /\ persisted = pre[t].persisted
        /\ locals[t].built

\* C12 (as claimed): a build on a usable store never fails and follows the
\* strategy tag: "mmr" hands as_retriever exactly k, fetch_k and lambda_mult;
\* "similarity" hands it exactly k, also when the settings dict still holds
\* fetch_k and lambda_mult; any other tag hands it no strategy and no
\* parameters, and the retriever is built all the same.
C12_RetrieverBuildPolicy ==
    \A t \in Threads :
        (AtRet(t, "set_retrieval_settings")
           /\ Truthy(pre[t].vector_store, pre[t].persisted))
        => /\ result[t].status = "ok"
           /\ retriever.built
           /\ LET tag == retrieval_settings.ret_strat IN
              /\ tag = "mmr" =>
                    /\ retriever.search_type = "mmr"
                    /\ retriever.search_kwargs
                         = [k |-> retrieval_settings.k,
                            fetch_k |-> retrieval_settings.fetch_k,
                            lambda_mult |-> retrieval_settings.lambda_mult]
              /\ tag = "similarity" =>
                    /\ retriever.search_type = "similarity"
                    /\ retriever.search_kwargs = [k |-> retrieval_settings.k]
              /\ tag \notin {"mmr", "similarity"} =>
                    /\ retriever.search_type = "None"
                    /\ DOMAIN retriever.search_kwargs = {}

\* C13 (as claimed): set_retrieval_settings on a Loaded instance stores the
\* new settings and rebuilds the retriever from the unchanged store: the
\* collection, the store handle, the root and the persist directory are as
\* before the call, and the retriever in use afterwards is the one built
\* from the new settings.
C13_SettingsChangeRebuildsOnly ==
    \A t \in Threads :
        (AtRet(t, "set_retrieval_settings")
           /\ pre[t].vector_store = "Chroma"
           /\ pre[t].retriever # NoRetriever)
        => /\ retrieval_settings = SettingsNamed(call[t].arg[1])
           /\ <<dirState, persisted, vector_store, repo_root>>
                = <<pre[t].dirState, pre[t].persisted, pre[t].vector_store,
                    pre[t].repo_root>>
           /\ locals[t].built
           /\ retriever.built
           /\ retriever.search_type = SearchArgs(retrieval_settings).search_type
           /\ retriever.search_kwargs = SearchArgs(retrieval_settings).search_kwargs

\* A step that constructs a new instance over the persist directory.
IsRestart == ~fresh /\ fresh'

\* After clear() the instance holds no store handle, no retriever and no
\* root, and the persist directory and its collection are as before.
ClearKeepsDisk ==
    \A t \in Threads :
        AtRet(t, "clear") =>
            /\ result[t].status = "ok"
            /\ vector_store = "None" /\ retriever = NoRetriever
            /\ repo_root = "None"
            /\ dirState = pre[t].dirState
            /\ persisted = pre[t].persisted

\* Constructing a new instance leaves the persist directory alone and
\* opens the collection found there, whenever that collection can be
\* opened and a retriever built on it.
RestartRestores ==
    IsRestart =>
        /\ dirState' = dirState /\ persisted' = persisted
        /\ (dirState = "store" /\ Truthy("Chroma", persisted)) =>
              /\ vector_store' = "Chroma"
              /\ retriever' = BuildChain("Chroma", persisted, DefaultSettings).retriever
              /\ retriever'.built

\* C14: clear() drops the in-memory handles only: afterwards has_vector_db
\* and ready_for_retrieval answer false and the root is forgotten, while the
\* persist directory and every persisted chunk are exactly as before the
\* call; a new instance constructed over the directory restores that store.
C14_ClearDropsHandlesOnly == [](ClearKeepsDisk) /\ [][RestartRestores]_vars

\* clear() returned on an instance that was Loaded with a root: the handles
\* are gone and the collection is still on disk.
C14_Witness ==
    \E t \in Threads :
        /\ AtRet(t, "clear")
        /\ pre[t].vector_store = "Chroma" /\ pre[t].retriever # NoRetriever
        /\ pre[t].repo_root = "R"
        /\ vector_store = "None"
        /\ dirState = "store" /\ persisted # EmptyBag

\* After clear_vector_db() the instance is Empty and the persist directory
\* exists and is empty.
ClearVectorDbEmpties ==
    \A t \in Threads :
        AtRet(t, "clear_vector_db") =>
            /\ result[t].status = "ok"
            /\ vector_store = "None" /\ retriever = NoRetriever
            /\ repo_root = "None"
            /\ dirState = "empty"
            /\ persisted = EmptyBag

\* A new instance over an empty persist directory starts Empty.
RestartOverEmptyDirectory ==
    (IsRestart /\ dirState = "empty") =>
        /\ vector_store' = "None" /\ retriever' = NoRetriever
        /\ repo_root' = "None"
        /\ dirState' = "empty" /\ persisted' = EmptyBag

\* C15: clear_vector_db(), from any state, leaves the instance Empty and the
\* persist directory existing and empty: no chunk survives on disk, and a
\* new instance constructed over the directory attempts no restore and
\* starts Empty.
C15_ClearVectorDbLeavesNothing ==
    [](ClearVectorDbEmpties) /\ [][RestartOverEmptyDirectory]_vars

\* clear_vector_db() returned on a Loaded instance whose collection held
\* chunks.
C15_Witness ==
    \E t \in Threads :
        /\ AtRet(t, "clear_vector_db")
        /\ pre[t].vector_store = "Chroma" /\ pre[t].retriever # NoRetriever
        /\ pre[t].dirState = "store" /\ pre[t].persisted # EmptyBag
        /\ dirState = "empty" /\ persisted = EmptyBag

\* C16 (as claimed): ingest indexes no file beneath an ignored directory:
\* a returning ingest has added no chunk whose source lies under .venv.
C16_IgnoredDirectories ==
    \A t \in Threads :
        AtRet(t, "ingest") =>
            ChunksOf(persisted, IgnoredDirFile)
              = ChunksOf(pre[t].persisted, IgnoredDirFile)

\* C17: when adding the new chunks fails in update_files, after the delete
\* step, the call ends with the error and the instance stays usable: the
\* store handle, the root and the persist directory are as before, the lock
\* is free again once the call is over, the chunks of every path not named
\* are unchanged, and the named paths have no chunk at all, neither an old
\* nor a new one.  A later update_files with the same paths, whatever the
\* working tree is by then, makes of this collection exactly what one call
\* would have made of the collection before the failure, and a call that
\* returns normally leaves what one call makes of the collection it found.
C17_RecoverableFailureWindow ==
    \A t \in Threads :
        /\ pc[t] = "idle" => lock # t
        /\ (AtRet(t, "update_files") /\ result[t].status = EmbedError) =>
              /\ <<dirState, vector_store, repo_root>>
                   = <<pre[t].dirState, pre[t].vector_store, pre[t].repo_root>>
              /\ \A f \in AllFiles \ Range(call[t].arg) :
                    ChunksOf(persisted, f) = ChunksOf(pre[t].persisted, f)
              /\ \A p \in Range(call[t].arg) : ChunksOf(persisted, p) = EmptyBag
              /\ \A d \in Trees :
                    SerialUpdate(persisted, d, call[t].arg)
                      = SerialUpdate(pre[t].persisted, d, call[t].arg)
        /\ Returned(t, "update_files") =>
              persisted = SerialUpdate(pre[t].persisted, disk, call[t].arg)

\* update_files("a.py", "b.py") failed while embedding: both files had
\* chunks in the collection and have none now.
C17_Witness ==
    \E t \in Threads :
        /\ AtRet(t, "update_files")
        /\ result[t].status = EmbedError
        /\ call[t].arg = <<"a.py", "b.py">>
        /\ ChunksOf(pre[t].persisted, "a.py") # EmptyBag
        /\ ChunksOf(pre[t].persisted, "b.py") # EmptyBag
        /\ persisted = EmptyBag

\* The lock is taken only by a thread that is not inside a method.
NoReentry ==
    \A t \in Threads : (lock # t /\ lock' = t) => ~Inside(t)

\* C18: under fair scheduling and terminating calls every public method
\* that is invoked gets the lock and reaches the end of its body, by return
\* or by exception, and then the lock is released; and the lock is never
\* taken by a thread that already holds it.
C18_ProgressWithoutDeadlock ==
    /\ \A t \in Threads : pc[t] = "waiting" ~> pc[t] = "ret"
    /\ \A t \in Threads : pc[t] = "ret" ~> (pc[t] = "idle" /\ lock # t)
    /\ [][NoReentry]_vars

\* A thread is blocked in clear_vector_db while the other is inside
\* update_files, between its delete and its add.
C18_Witness ==
    \E t \in Threads, u \in Threads :
        /\ pc[t] = "waiting" /\ call[t].op = "clear_vector_db"
        /\ lock = u /\ pc[u] = "upd_add"

\* No public method is running.
Quiescent == \A t \in Threads : ~Inside(t)

\* C19 (as claimed): in every state between public operations, whether
\* they returned or raised, has_vector_db() and ready_for_retrieval() give
\* the same answer, and when they answer true the retriever is the one
\* _build_chain makes of the store with the retrieval settings as they are.
C19_StoreAndRetrieverAgree ==
    Quiescent =>
        /\ vector_store # "None" <=> retriever # NoRetriever
        /\ (vector_store # "None" /\ retriever # NoRetriever) =>
              /\ retriever.search_type = SearchArgs(retrieval_settings).search_type
              /\ retriever.search_kwargs = SearchArgs(retrieval_settings).search_kwargs

\* C20 (as claimed): whenever a store handle is present the repository
\* root is known, also on an instance whose store was restored by __init__.
C20_RootKnownWhenStoreLoaded ==
    vector_store # "None" => repo_root # "None"

\* C21 (as claimed): whatever ingest and update_files calls were made,
\* every chunk in the collection comes from a file whose extension is in
\* include_ext.
C21_OnlyEligibleFilesIndexed ==
    \A c \in DOMAIN persisted : Suffix(c.source) \in IncludeExt

\* set_retrieval_settings without a store fails in the build, with the
\* settings of the call stored and everything else as it was; and an
\* ingest that returns has built the retriever from the settings it found.
SettingsSurviveFailedBuild ==
    \A t \in Threads :
        /\ (AtRet(t, "set_retrieval_settings") /\ pre[t].vector_store = "None") =>
              /\ result[t].status = "RuntimeError: vector store must be initialised"
              /\ vector_store = "None" /\ retriever = NoRetriever
              /\ retrieval_settings = SettingsNamed(call[t].arg[1])
              /\ <<dirState, persisted, repo_root>>
                   = <<pre[t].dirState, pre[t].persisted, pre[t].repo_root>>
        /\ Returned(t, "ingest") =>
              /\ retrieval_settings = pre[t].retrieval_settings
              /\ retriever.built
              /\ retriever.search_type
                   = SearchArgs(pre[t].retrieval_settings).search_type
              /\ retriever.search_kwargs
                   = SearchArgs(pre[t].retrieval_settings).search_kwargs

\* On one instance the retrieval settings change only in a step of
\* set_retrieval_settings.
SettingsChangeOnlyBySetter ==
    (retrieval_settings' # retrieval_settings /\ ~IsRestart) =>
        \E t \in Threads : pc[t] = "set_retrieval_settings"

\* C22: set_retrieval_settings on an instance with no store (Empty or
\* cleared) raises the RuntimeError of the retriever build and leaves store
\* handle and retriever absent, but the new settings are stored already;
\* nothing but another set_retrieval_settings replaces them, so the next
\* ingest that returns builds its retriever from the settings of the failed
\* call and not from those in force before it.
C22_FailedSettingsChangeSticks ==
    [](SettingsSurviveFailedBuild) /\ [][SettingsChangeOnlyBySetter]_vars

\* set_retrieval_settings(similarity) has failed on an instance without a
\* store that had the settings of __init__: the similarity settings are in
\* place.
C22_Witness ==
    \E t \in Threads :
        /\ AtRet(t, "set_retrieval_settings")
        /\ pre[t].vector_store = "None"
        /\ pre[t].retrieval_settings = DefaultSettings
        /\ result[t].status = "RuntimeError: vector store must be initialised"
        /\ retrieval_settings = SimilaritySettings
        /\ retriever = NoRetriever

====
